---- MODULE Spec2Model ----
(***************************************************************************)
(* Model of main.py: the item-creation handler (POST /api/items) and the   *)
(* diagnostics handler (GET /test) of the "Master Data Barang" backend.    *)
(*                                                                         *)
(* create_item is an `async def`: it runs on the single event loop and     *)
(* gives the loop up only at `await image.read()`; everything from the     *)
(* open() to the return runs without another coroutine being scheduled.    *)
(* test_database is a plain `def`: it touches neither the File Sink nor    *)
(* the stored records.                                                     *)
(***************************************************************************)
EXTENDS Naturals, Sequences, FiniteSets, TLC

VARIABLES
    reqs,        \* reqs[r]: POST /api/items request r (position, form, response, history)
    files,       \* file system: path -> bytes, for the files that exist; the
                 \* File Sink is the part of it under UPLOAD_DIR
    atStart,     \* history: the file system as it was when the process started
    lastOpener,  \* history: path -> the request that opened it for writing last
                 \* (0: none since the process started)
    records,     \* documents held by the storage collaborator
    nextId,      \* storage collaborator: number of identifiers generated so far
    loop,        \* the request whose coroutine is running on the event loop (0: none)
    diag         \* diag[k]: GET /test run k: what it found and what it answered

vars == <<reqs, files, atStart, lastOpener, records, nextId, loop, diag>>

itemVars == <<reqs, files, atStart, lastOpener, records, nextId, loop>>
diagVars == <<diag>>

-----------------------------------------------------------------------------
(* Bounds *)

MaxReq == 2          \* POST /api/items requests in one behaviour
MaxColls == 11       \* longest collection listing the storage handle returns

Reqs == 1..MaxReq

\* Two runs of GET /test: what one run answers is compared with another's
Runs == {1, 2}

-----------------------------------------------------------------------------
(* Python values *)

None == "None"       \* Python's None; differs from every modelled string

Min(a, b) == IF a < b THEN a ELSE b

\* s[:n]
Prefix(s, n) == SubSeq(s, 1, Min(n, Len(s)))

-----------------------------------------------------------------------------
(* The multipart form of POST /api/items *)

Required == {"name", "condition", "category", "price", "image"}

UPLOAD_DIR == "/tmp/uploads"

\* Directories that exist: /tmp, and UPLOAD_DIR, which
\* os.makedirs(UPLOAD_DIR, exist_ok=True) creates; nothing in the program creates
\* another.
Dirs == {"/tmp", UPLOAD_DIR}

\* image.filename is the client's text, taken as it is: a plain name, a name with
\* a directory part, an absolute path
Filenames == {"chair.jpg", "sub/lamp.jpg", "/tmp/abs.jpg"}

\* os.path.isabs, on the texts of Filenames
IsAbs(filename) == filename = "/tmp/abs.jpg"

\* The bytes of an upload; an upload may be empty
Contents == {<<>>, <<1>>, <<2, 3>>}

\* The uploads: every content under "chair.jpg"; the two that are not empty under
\* "/tmp/abs.jpg"; one only under "sub/lamp.jpg", whose directory does not exist,
\* so that its bytes are never written
Images ==
    {img \in [filename : Filenames, content : Contents] :
        /\ img.filename = "sub/lamp.jpg" => img.content = <<1>>
        /\ img.filename = "/tmp/abs.jpg" => img.content # <<>>}

PriceTexts == {"150000", "abc"}

\* The framework's parse of a form value declared `float` (price: float = Form(...)),
\* on the texts of PriceTexts: whether the text is a number, and the number.
IsFloat(text) == text = "150000"
ParseFloat(text) == IF text = "150000" THEN 150000 ELSE 0

FullForm(img) ==
    [name |-> "Kursi", condition |-> "used", category |-> "Furniture",
     price |-> "150000", description |-> "Kursi kayu", image |-> img]

Without(form, field) == [k \in (DOMAIN form) \ {field} |-> form[k]]

AnImage == [filename |-> "chair.jpg", content |-> <<1>>]

\* description is optional: Form(None)
ValidForms ==
    {FullForm(img) : img \in Images}
        \cup {Without(FullForm(AnImage), "description")}

InvalidForms ==
    {Without(FullForm(AnImage), f) : f \in Required}
        \cup {[FullForm(AnImage) EXCEPT !.price = t] : t \in {u \in PriceTexts : ~IsFloat(u)}}
        \cup {Without(Without(FullForm(AnImage), "description"), "image")}

Forms == ValidForms \cup InvalidForms

\* image declared File(None): a form without it validates
ValidatesImageOptional(form) ==
    (Required \ {"image"}) \subseteq DOMAIN form /\ IsFloat(form.price)

\* The framework's validation of the declared parameters, done before the handler
\* is called: every Form(...) / File(...) field is there and price is a float.
Validates(form) == Required \subseteq DOMAIN form /\ IsFloat(form.price)

-----------------------------------------------------------------------------
(* The File Sink *)

\* os.path.join(UPLOAD_DIR, filename): an absolute filename discards UPLOAD_DIR
\* and is the result itself
SavePath(filename) ==
    IF IsAbs(filename) THEN filename ELSE UPLOAD_DIR \o "/" \o filename

\* os.path.dirname, on the save paths of Filenames
Dirname(path) ==
    IF path = "/tmp/abs.jpg" THEN "/tmp"
    ELSE IF path = "/tmp/uploads/sub/lamp.jpg" THEN "/tmp/uploads/sub"
    ELSE "/tmp/uploads"

\* open(save_path, "wb") cannot succeed where the directory is missing
\* (FileNotFoundError); a file already there is no obstacle
OpenMustRaise(fs, path) == Dirname(path) \notin Dirs

\* Mode "r+b" in place of "wb": a file already there keeps its bytes
OpenNoTruncate(fs, path) ==
    [p \in (DOMAIN fs) \cup {path} |-> IF p \in DOMAIN fs THEN fs[p] ELSE <<>>]

\* open(save_path, "wb"): the file exists afterwards and is empty
OpenWB(fs, path) ==
    [p \in (DOMAIN fs) \cup {path} |-> IF p = path THEN <<>> ELSE fs[p]]

\* f.write(content) at offset 0 and the close that ends the `with` block
WriteBytes(fs, path, data) ==
    [fs EXCEPT ![path] = data \o SubSeq(fs[path], Len(data) + 1, Len(fs[path]))]

\* The bytes that reached the file when f.write(content) or the close raised: none,
\* some, or all of the content (a close that reports the error after the bytes
\* were taken leaves the whole content)
BytesTaken(data) == {Prefix(data, n) : n \in 0..Len(data)}

\* image_url = f"/uploads/{filename}"
ImageUrl(filename) == "/uploads/" \o filename

-----------------------------------------------------------------------------
(* The record and the responses of create_item *)

Description(form) ==
    IF "description" \in DOMAIN form THEN form.description ELSE None

\* data = {...}
Data(form) ==
    [name |-> form.name, category |-> form.category, condition |-> form.condition,
     price |-> ParseFloat(form.price), description |-> Description(form),
     image_url |-> ImageUrl(form.image.filename)]

\* ItemOut(id=inserted_id, ...)
ItemOut(id, form) ==
    [id |-> id, name |-> form.name, category |-> form.category,
     condition |-> form.condition, price |-> ParseFloat(form.price),
     description |-> Description(form),
     image_url |-> ImageUrl(form.image.filename)]

NoResp == [status |-> 0, body |-> [detail |-> "none"]]

\* The framework's answer to a form that does not validate
ValidationError == [status |-> 422, body |-> [detail |-> "validation error"]]

\* The framework's answer when an exception leaves the handler
InternalServerError == [status |-> 500, body |-> [detail |-> "Internal Server Error"]]

\* JSONResponse(status_code=500, content={"error": str(e)})
ErrorResponse(message) == [status |-> 500, body |-> [error |-> message]]

OkResponse(id, form) == [status |-> 200, body |-> ItemOut(id, form)]

-----------------------------------------------------------------------------
(* The storage collaborator: create_document(collection, data) *)

\* The messages of the exceptions an insert raises
InsertErrors == {"connection refused", "duplicate key"}

\* The identifier generated for the n-th inserted document
GenId(n) == "id" \o ToString(n)

\* The stored document; owner is history: the request whose insert stored it
InsertDoc(store, collection, data, id, owner) ==
    store \cup {[collection |-> collection, id |-> id, data |-> data, owner |-> owner]}

-----------------------------------------------------------------------------
(* Initial state *)

NoForm == [k \in {} |-> ""]

\* trace and insert_error are history: the File Sink and storage calls the request
\* has made, and the message of the exception its insert raised ("": none)
IdleReq == [pc |-> "idle", form |-> NoForm, resp |-> NoResp, trace |-> <<>>,
            inserted_id |-> "", insert_error |-> ""]

NoDiag == [ran |-> FALSE, raised |-> FALSE]

\* The files an earlier run of the program may have left under UPLOAD_DIR:
\* os.makedirs(UPLOAD_DIR, exist_ok=True) keeps what the directory holds
LeftFiles ==
    [p \in {"/tmp/uploads/chair.jpg", "/tmp/uploads/old.jpg"}
        |-> IF p = "/tmp/uploads/chair.jpg" THEN <<1>> ELSE <<9>>]

\* The file systems the process may start over: no file, or one of LeftFiles
StartFiles ==
    {[p \in S |-> LeftFiles[p]] :
        S \in {T \in SUBSET DOMAIN LeftFiles : Cardinality(T) <= 1}}

Init ==
    /\ reqs = [r \in Reqs |-> IdleReq]
    /\ files \in StartFiles
    /\ atStart = files
    /\ lastOpener = [p \in DOMAIN files |-> 0]
    /\ records = {}
    /\ nextId = 0
    /\ loop = 0
    /\ diag = [k \in Runs |-> NoDiag]

-----------------------------------------------------------------------------
(* POST /api/items *)

\* The request arrives; the framework parses and validates the form and, where it
\* validates, calls create_item, which runs up to `await image.read()`.
Receive(r, F) ==
    /\ reqs[r].pc = "idle"
    /\ r > 1 => reqs[r - 1].pc # "idle"
    /\ \E form \in F :
          reqs' = [reqs EXCEPT ![r] =
                     IF Validates(form)
                     THEN [@ EXCEPT !.pc = "read", !.form = form]
                     ELSE [@ EXCEPT !.pc = "rejected", !.form = form,
                                    !.resp = ValidationError]]
    /\ UNCHANGED <<files, lastOpener, records, nextId, loop, diagVars, atStart>>

\* content = await image.read(): the coroutine is resumed on the event loop
Read(r) ==
    /\ reqs[r].pc = "read"
    /\ loop = 0
    /\ loop' = r
    /\ reqs' = [reqs EXCEPT ![r].pc = "open"]
    /\ UNCHANGED <<files, lastOpener, records, nextId, diagVars, atStart>>

\* open(save_path, "wb") raises (OSError): the directory is missing, or the system
\* refuses the open though the directory is there (no descriptor left, read-only
\* file system, permission, name too long). The file system is as it was;
\* nothing in create_item catches the exception
OpenFails(r) ==
    /\ reqs[r].pc = "open"
    /\ loop = r
    /\ reqs' = [reqs EXCEPT ![r].pc = "raised", ![r].resp = InternalServerError]
    /\ loop' = 0
    /\ UNCHANGED <<files, lastOpener, records, nextId, diagVars, atStart>>

\* open(save_path, "wb")
Open(r) ==
    /\ reqs[r].pc = "open"
    /\ loop = r
    /\ ~OpenMustRaise(files, SavePath(reqs[r].form.image.filename))
    /\ files' = OpenWB(files, SavePath(reqs[r].form.image.filename))
    /\ lastOpener' = [p \in (DOMAIN lastOpener) \cup {SavePath(reqs[r].form.image.filename)}
                        |-> IF p = SavePath(reqs[r].form.image.filename)
                            THEN r ELSE lastOpener[p]]
    /\ reqs' = [reqs EXCEPT ![r].pc = "write", ![r].trace = Append(@, "open")]
    /\ UNCHANGED <<records, nextId, loop, diagVars, atStart>>

\* f.write(content), and the file is closed
Write(r) ==
    LET path == SavePath(reqs[r].form.image.filename) IN
    /\ reqs[r].pc = "write"
    /\ loop = r
    /\ files' = WriteBytes(files, path, reqs[r].form.image.content)
    /\ reqs' = [reqs EXCEPT ![r].pc = "insert", ![r].trace = Append(@, "write")]
    /\ UNCHANGED <<lastOpener, records, nextId, loop, diagVars, atStart>>

\* f.write(content) or the close raises (OSError) after none, part or all of the
\* bytes reached the file: nothing in create_item catches it
WriteFails(r) ==
    LET path == SavePath(reqs[r].form.image.filename) IN
    /\ reqs[r].pc = "write"
    /\ loop = r
    /\ \E part \in BytesTaken(reqs[r].form.image.content) :
          files' = WriteBytes(files, path, part)
    /\ reqs' = [reqs EXCEPT ![r].pc = "raised", ![r].resp = InternalServerError]
    /\ loop' = 0
    /\ UNCHANGED <<lastOpener, records, nextId, diagVars, atStart>>

\* inserted_id = create_document("item", data)
Insert(r) ==
    /\ reqs[r].pc = "insert"
    /\ loop = r
    /\ nextId' = nextId + 1
    /\ records' = InsertDoc(records, "item", Data(reqs[r].form), GenId(nextId'), r)
    /\ reqs' = [reqs EXCEPT ![r].pc = "respond", ![r].inserted_id = GenId(nextId'),
                            ![r].trace = Append(@, "insert")]
    /\ UNCHANGED <<files, lastOpener, loop, diagVars, atStart>>

\* create_document raises: except Exception as e: return JSONResponse(500, ...)
InsertFails(r) ==
    /\ reqs[r].pc = "insert"
    /\ loop = r
    /\ \E message \in InsertErrors :
          reqs' = [reqs EXCEPT ![r].pc = "done", ![r].resp = ErrorResponse(message),
                                  ![r].trace = Append(@, "insert"),
                                  ![r].insert_error = message]
    /\ loop' = 0
    /\ UNCHANGED <<files, lastOpener, records, nextId, diagVars, atStart>>

\* return ItemOut(...)
Respond(r) ==
    /\ reqs[r].pc = "respond"
    /\ loop = r
    /\ reqs' = [reqs EXCEPT ![r].pc = "done",
                            ![r].resp = OkResponse(reqs[r].inserted_id, reqs[r].form)]
    /\ loop' = 0
    /\ UNCHANGED <<files, lastOpener, records, nextId, diagVars, atStart>>

CreateItem(r) ==
    \/ Read(r)
    \/ OpenFails(r)
    \/ Open(r)
    \/ Write(r)
    \/ WriteFails(r)
    \/ Insert(r)
    \/ InsertFails(r)
    \/ Respond(r)

NextItems == \E r \in Reqs : Receive(r, Forms) \/ CreateItem(r)

SpecItems == Init /\ [][NextItems]_vars

-----------------------------------------------------------------------------
(* GET /test *)
(* The texts are those of the source without their leading symbol, which   *)
(* is not ASCII.                                                           *)

ListCap == 10        \* collections[:10]
ErrCap == 50         \* str(e)[:50]

\* A text of n characters, each written as its position
Chars(n) == [i \in 1..n |-> i]

\* The messages of the exceptions the probe meets: shorter and longer than ErrCap
ProbeErrors == {Chars(3), Chars(ErrCap + 1)}

\* A listing of n collection names
Names(n) == [i \in 1..n |-> "c" \o ToString(i)]

\* db.list_collection_names(): raises, or returns the names
Listings ==
    {[raises |-> TRUE, message |-> m, names |-> <<>>] : m \in ProbeErrors}
        \cup {[raises |-> FALSE, message |-> <<>>, names |-> Names(n)] : n \in 0..MaxColls}

NoAttr == "NoAttr"   \* the handle has no attribute `name`

\* What `from database import db` gives: it raises ImportError ("missing"), it raises
\* another exception ("broken"), db is None ("none"), or db is a handle.
DbStates ==
    {[kind |-> k, message |-> m, name |-> NoAttr, listing |-> l] :
        k \in {"missing", "broken"}, m \in {Chars(3)},
        l \in {[raises |-> FALSE, message |-> <<>>, names |-> <<>>]}}
    \cup {[kind |-> "none", message |-> <<>>, name |-> NoAttr,
            listing |-> [raises |-> FALSE, message |-> <<>>, names |-> <<>>]]}
    \cup {[kind |-> "handle", message |-> <<>>, name |-> n, listing |-> l] :
            n \in {NoAttr, "barang"}, l \in Listings}

\* os.environ: a variable is unset (None), set to the empty text, or set to a text
EnvValues == {None, "", "mongodb://localhost", "barang"}
Envs == [DATABASE_URL : EnvValues, DATABASE_NAME : EnvValues]

\* Python's truth of os.getenv(name): None and "" are false
Truthy(value) == value # None /\ value # ""

\* "Set" if os.getenv(...) else "Not Set"
EnvLabel(value) == IF Truthy(value) THEN "Set" ELSE "Not Set"

Text(t) == [text |-> t, detail |-> <<>>]

\* response = {...}
InitialResponse ==
    [backend |-> "Running", database |-> Text("Not Available"),
     database_url |-> None, database_name |-> None,
     connection_status |-> "Not Connected", collections |-> <<>>]

\* collections in place of collections[:10]
ProbeListingUncut(resp, listing) ==
    IF listing.raises
    THEN [resp EXCEPT !.database =
            [text |-> "Connected but Error: ", detail |-> Prefix(listing.message, ErrCap)]]
    ELSE [resp EXCEPT !.collections = listing.names,
                      !.database = Text("Connected & Working")]

\* The inner try: db.list_collection_names() and its `except Exception`
ProbeListing(resp, listing) ==
    IF listing.raises
    THEN [resp EXCEPT !.database =
            [text |-> "Connected but Error: ", detail |-> Prefix(listing.message, ErrCap)]]
    ELSE [resp EXCEPT !.collections = Prefix(listing.names, ListCap),
                      !.database = Text("Connected & Working")]

\* The branch `if db is not None`
ProbeHandle(resp, db) ==
    ProbeListing(
        [resp EXCEPT !.database = Text("Available"),
                     !.database_url = "Configured",
                     !.database_name = IF db.name # NoAttr THEN db.name ELSE "Connected",
                     !.connection_status = "Connected"],
        db.listing)

\* The exception classes the outer try's clauses catch: `except ImportError` and
\* `except Exception`, which is every exception the import raises.
OuterCatches(kind) == kind \in {"missing", "broken"}

\* The outer try with its except clauses. raised: the exception left test_database.
ProbeDb(resp, db) ==
    CASE db.kind = "handle" -> [raised |-> FALSE, resp |-> ProbeHandle(resp, db)]
      [] db.kind = "none" ->
            [raised |-> FALSE,
             resp |-> [resp EXCEPT !.database = Text("Available but not initialized")]]
      [] db.kind = "missing" /\ OuterCatches(db.kind) ->
            [raised |-> FALSE,
             resp |-> [resp EXCEPT !.database =
                         Text("Database module not found (run enable-database first)")]]
      [] db.kind = "broken" /\ OuterCatches(db.kind) ->
            [raised |-> FALSE,
             resp |-> [resp EXCEPT !.database =
                         [text |-> "Error: ", detail |-> Prefix(db.message, ErrCap)]]]
      [] OTHER -> [raised |-> TRUE, resp |-> resp]

\* The two assignments left out: what the probe stored stays
CheckEnvSkipped(resp, env) == resp

\* # Check environment variables
CheckEnv(resp, env) ==
    [resp EXCEPT !.database_url = EnvLabel(env.DATABASE_URL),
                 !.database_name = EnvLabel(env.DATABASE_NAME)]

\* test_database(): the run's outcome for what it finds
RunTest(db, env) ==
    LET probed == ProbeDb(InitialResponse, db) IN
    IF probed.raised
    THEN [ran |-> TRUE, raised |-> TRUE, db |-> db, env |-> env, resp |-> probed.resp]
    ELSE [ran |-> TRUE, raised |-> FALSE, db |-> db, env |-> env,
          resp |-> CheckEnv(probed.resp, env)]

\* One GET /test request, served in a worker thread
TestDatabase(k, D, E) ==
    /\ ~diag[k].ran
    /\ k > 1 => diag[k - 1].ran
    /\ \E db \in D, env \in E : diag' = [diag EXCEPT ![k] = RunTest(db, env)]
    /\ UNCHANGED itemVars

NextDiag == \E k \in Runs : TestDatabase(k, DbStates, Envs)

SpecDiag == Init /\ [][NextDiag]_vars

-----------------------------------------------------------------------------
(* Both handlers together, on the forms and the probes that tell the paths *)
(* of the handlers apart                                                   *)

CoreForms ==
    {FullForm(img) : img \in Images}
        \cup {Without(FullForm(AnImage), "image")}

CoreDbStates == {db \in DbStates : db.kind \in {"none", "missing"}}

CoreEnvs == {env \in Envs : env.DATABASE_URL = None /\ env.DATABASE_NAME = None}

Next ==
    \/ \E r \in Reqs : Receive(r, CoreForms) \/ CreateItem(r)
    \/ \E k \in Runs : TestDatabase(k, CoreDbStates, CoreEnvs)

Spec == Init /\ [][Next]_vars

-----------------------------------------------------------------------------
(* Properties *)

Filename(r) == reqs[r].form.image.filename
Upload(r) == reqs[r].form.image.content

\* The place of the uploaded filename in the File Sink
PathOf(r) == "/tmp/uploads/" \o Filename(r)

\* The path the request's file is opened at: the filename itself when it starts
\* with "/", else its place in the File Sink
SavedAt(r) == IF Filename(r) = "/tmp/abs.jpg" THEN "/tmp/abs.jpg" ELSE PathOf(r)

\* The request was received and its form has an image
HasImage(r) == reqs[r].pc # "idle" /\ "image" \in DOMAIN reqs[r].form

\* The request has ended: rejected, answered by the handler, or left by an exception
Ended(r) == reqs[r].pc \in {"rejected", "done", "raised"}

\* The documents the request's insert stored
Stored(r) == {d \in records : d.owner = r}

\* The request's f.write and close completed
Wrote(r) == \E i \in DOMAIN reqs[r].trace : reqs[r].trace[i] = "write"

\* s is the beginning of t, or all of it
IsPrefix(s, t) == Len(s) <= Len(t) /\ \A i \in 1..Len(s) : s[i] = t[i]

\* C1: a POST /api/items request that lacks a mandatory field (name, condition,
\* category, price or image) is rejected with a client-error response and has no
\* side effect: it opens and writes no file and makes no insert call, so the File
\* Sink and the stored records are what they were before it.
C1_MissingFieldRejected ==
    \A r \in Reqs :
        (reqs[r].pc # "idle"
            /\ ~({"name", "condition", "category", "price", "image"}
                    \subseteq DOMAIN reqs[r].form))
        => /\ reqs[r].pc = "rejected"
           /\ reqs[r].resp.status \in 400..499
           /\ reqs[r].trace = <<>>
           /\ Stored(r) = {}
           /\ \A p \in DOMAIN lastOpener : lastOpener[p] # r
           /\ loop # r

\* A request without its image was rejected while the File Sink and the storage
\* hold what another request put there.
C1_Witness ==
    \E r \in Reqs :
        /\ reqs[r].pc = "rejected"
        /\ "image" \notin DOMAIN reqs[r].form
        /\ records # {}
        /\ \E p \in DOMAIN files : lastOpener[p] # 0

\* C2 (as stated): when the insert of a valid request raises, the response is
\* status 500 with body {"error": the exception's message}, no record is added to
\* storage, and the file the request wrote is not rolled back: it is still in the
\* File Sink under the uploaded filename.
C2_InsertFailureLeavesOrphan ==
    \A r \in Reqs :
        reqs[r].insert_error # ""
        => /\ reqs[r].pc = "done"
           /\ reqs[r].resp = [status |-> 500, body |-> [error |-> reqs[r].insert_error]]
           /\ Stored(r) = {}
           /\ "write" \in {reqs[r].trace[i] : i \in DOMAIN reqs[r].trace}
           /\ PathOf(r) \in DOMAIN files

\* C3 (as stated): when the insert of a valid request succeeds, the response is
\* the full record: name, category, condition, price and description as submitted,
\* id the identifier the insert returned, image_url "/uploads/" followed by the
\* submitted filename; and a file of that name is in the File Sink, with the
\* upload's bytes as long as no later request has opened that name for writing.
C3_SuccessReturnsRecord ==
    \A r \in Reqs :
        (reqs[r].pc = "done" /\ Stored(r) # {})
        => /\ reqs[r].resp.status = 200
           /\ reqs[r].resp.body =
                [id |-> reqs[r].inserted_id,
                 name |-> reqs[r].form.name,
                 category |-> reqs[r].form.category,
                 condition |-> reqs[r].form.condition,
                 price |-> 150000,
                 description |-> IF "description" \in DOMAIN reqs[r].form
                                 THEN reqs[r].form.description ELSE "None",
                 image_url |-> "/uploads/" \o Filename(r)]
           /\ reqs[r].form.price = "150000"
           /\ \A d \in Stored(r) : d.id = reqs[r].resp.body.id
           /\ PathOf(r) \in DOMAIN files
           /\ lastOpener[PathOf(r)] = r => files[PathOf(r)] = Upload(r)

\* C4 (as stated): two valid uploads with the same filename, one after the other,
\* whose inserts succeed are both accepted; the second overwrites the file of the
\* first, so the File Sink holds one file under that name, with the bytes of the
\* second (the one that opened it last); storage holds two distinct records with
\* distinct non-empty ids and the same image_url.
C4_SameFilenameOverwrites ==
    \A r1, r2 \in Reqs :
        (r1 # r2 /\ HasImage(r1) /\ HasImage(r2) /\ Filename(r1) = Filename(r2)
            /\ reqs[r1].pc = "done" /\ reqs[r1].insert_error = ""
            /\ reqs[r2].pc = "done" /\ reqs[r2].insert_error = "")
        => /\ reqs[r1].resp.status = 200 /\ reqs[r2].resp.status = 200
           /\ reqs[r1].resp.body.id # reqs[r2].resp.body.id
           /\ reqs[r1].resp.body.id # "" /\ reqs[r2].resp.body.id # ""
           /\ \E d1 \in records, d2 \in records :
                  /\ d1 # d2
                  /\ d1.id = reqs[r1].resp.body.id
                  /\ d2.id = reqs[r2].resp.body.id
                  /\ d1.data.image_url = d2.data.image_url
                  /\ d1.data.image_url = "/uploads/" \o Filename(r1)
           /\ PathOf(r1) \in DOMAIN files
           /\ lastOpener[PathOf(r1)] = r2 => files[PathOf(r1)] = Upload(r2)

\* C5: GET /test always answers and lets no exception out, whatever it finds
\* (import fails, handle null, listing raises, listing succeeds); collections has
\* at most 10 names: the first 10 of the listing, in order, when the listing
\* succeeds, and none otherwise.
C5_DiagnosticsNeverRaises ==
    \A k \in Runs :
        diag[k].ran
        => /\ ~diag[k].raised
           /\ diag[k].resp.backend = "Running"
           /\ Len(diag[k].resp.collections) <= 10
           /\ IF diag[k].db.kind = "handle" /\ ~diag[k].db.listing.raises
              THEN /\ Len(diag[k].resp.collections)
                        = Min(10, Len(diag[k].db.listing.names))
                   /\ \A i \in 1..Len(diag[k].resp.collections) :
                        diag[k].resp.collections[i] = diag[k].db.listing.names[i]
              ELSE diag[k].resp.collections = <<>>

\* One run met a listing of more than 10 names and answered 10 of them; the other
\* met an import that raises something other than ImportError.
C5_Witness ==
    \E j, k \in Runs :
        /\ diag[j].ran /\ diag[k].ran
        /\ diag[j].db.kind = "handle"
        /\ ~diag[j].db.listing.raises
        /\ Len(diag[j].db.listing.names) > 10
        /\ Len(diag[j].resp.collections) = 10
        /\ diag[k].db.kind = "broken"
        /\ ~diag[k].raised

\* C6 (as stated): every failure met while a request is handled is caught in the
\* handler and turned into a response by the handler: no request ends with an
\* exception leaving create_item, a failing file write included.
C6_EveryFailureCaught ==
    \A r \in Reqs : reqs[r].pc # "raised"

\* C7 (as stated): database_url and database_name tell only whether the variables
\* are set: two runs in which each variable is alike set or unset answer the same
\* two fields, whatever the handle and whatever the variables hold.
C7_PresenceOnly ==
    \A j, k \in Runs :
        (diag[j].ran /\ diag[k].ran
            /\ (diag[j].env.DATABASE_URL = "None" <=> diag[k].env.DATABASE_URL = "None")
            /\ (diag[j].env.DATABASE_NAME = "None" <=> diag[k].env.DATABASE_NAME = "None"))
        => /\ diag[j].resp.database_url = diag[k].resp.database_url
           /\ diag[j].resp.database_name = diag[k].resp.database_name

NonEmpty(value) == value # "None" /\ value # ""

\* C7 (amended): database_url and database_name tell only whether the variables
\* are set to a non-empty text: two runs in which each variable is alike non-empty
\* or not (unset, or set to the empty text) answer the same two fields, "Set" for
\* non-empty and "Not Set" otherwise, whatever the handle and the database's name.
C7_NonEmptinessOnly ==
    \A j, k \in Runs :
        (diag[j].ran /\ diag[k].ran
            /\ (NonEmpty(diag[j].env.DATABASE_URL) <=> NonEmpty(diag[k].env.DATABASE_URL))
            /\ (NonEmpty(diag[j].env.DATABASE_NAME) <=> NonEmpty(diag[k].env.DATABASE_NAME)))
        => /\ diag[j].resp.database_url = diag[k].resp.database_url
           /\ diag[j].resp.database_name = diag[k].resp.database_name
           /\ diag[j].resp.database_url
                = (IF NonEmpty(diag[j].env.DATABASE_URL) THEN "Set" ELSE "Not Set")
           /\ diag[j].resp.database_name
                = (IF NonEmpty(diag[j].env.DATABASE_NAME) THEN "Set" ELSE "Not Set")

\* A run with a handle named "barang" and a run whose import fails, the first with
\* DATABASE_NAME unset and the second with it empty, both answer "Not Set"; their
\* DATABASE_URL holds different texts and both answer "Set".
C7_Witness ==
    /\ diag[1].ran /\ diag[2].ran
    /\ diag[1].db.kind = "handle" /\ diag[1].db.name = "barang"
    /\ diag[2].db.kind = "missing"
    /\ diag[1].env.DATABASE_NAME = "None" /\ diag[2].env.DATABASE_NAME = ""
    /\ diag[1].env.DATABASE_URL = "mongodb://localhost"
    /\ diag[2].env.DATABASE_URL = "barang"
    /\ diag[1].resp.database_name = "Not Set" /\ diag[2].resp.database_name = "Not Set"
    /\ diag[1].resp.database_url = "Set" /\ diag[2].resp.database_url = "Set"

\* Two valid requests with the same filename and different bytes
SameNameOtherBytes(r1, r2) ==
    /\ r1 # r2
    /\ HasImage(r1) /\ HasImage(r2)
    /\ reqs[r1].pc # "rejected" /\ reqs[r2].pc # "rejected"
    /\ Filename(r1) = Filename(r2)
    /\ Upload(r1) # Upload(r2)

\* C8 (as stated): two valid requests with the same filename and different bytes,
\* handled concurrently: both complete and create their own record, and once both
\* have completed the file has exactly the bytes of the one that wrote last.
C8_BothCreateRecord ==
    \A r1, r2 \in Reqs :
        (SameNameOtherBytes(r1, r2) /\ Ended(r1) /\ Ended(r2))
        => /\ reqs[r1].pc = "done" /\ reqs[r2].pc = "done"
           /\ Stored(r1) # {} /\ Stored(r2) # {}
           /\ SavedAt(r1) \in DOMAIN files
           /\ lastOpener[SavedAt(r1)] \in {r1, r2}
              => files[SavedAt(r1)] = Upload(lastOpener[SavedAt(r1)])

\* C8 (amended): two valid requests with the same filename and different bytes,
\* handled concurrently, in every interleaving: each of the two whose open, write
\* and insert succeed creates its own record; one whose open, write or insert
\* raises creates none. Once both have ended, the file at the path the two open
\* (the upload directory joined with the filename) has, where one of the two was
\* the last to open it, exactly the bytes of that one's upload when its write
\* completed: one of the two uploads, never a mixture, and empty only if that
\* upload is empty; and a beginning of that upload (none, part or all of its
\* bytes) when its write raised. The file exists as soon as the open of either
\* succeeded, and where no request's open of that path succeeded the path is as
\* it was when the process started: no file, or the file an earlier run left,
\* with the bytes it had.
C8_LastWriteWins ==
    \A r1, r2 \in Reqs :
        (SameNameOtherBytes(r1, r2) /\ Ended(r1) /\ Ended(r2))
        => /\ \A r \in {r1, r2} :
                /\ (reqs[r].pc = "done" /\ reqs[r].insert_error = "")
                   => /\ Cardinality(Stored(r)) = 1
                      /\ reqs[r].resp.status = 200
                      /\ reqs[r].trace = <<"open", "write", "insert">>
                /\ (reqs[r].pc = "raised" \/ reqs[r].insert_error # "")
                   => Stored(r) = {}
           /\ (reqs[r1].trace # <<>> \/ reqs[r2].trace # <<>>)
              => SavedAt(r1) \in DOMAIN files
           /\ (\A q \in Reqs : (HasImage(q) /\ SavedAt(q) = SavedAt(r1))
                                  => reqs[q].trace = <<>>)
              => IF SavedAt(r1) \in DOMAIN atStart
                 THEN /\ SavedAt(r1) \in DOMAIN files
                      /\ files[SavedAt(r1)] = atStart[SavedAt(r1)]
                 ELSE SavedAt(r1) \notin DOMAIN files
           /\ (SavedAt(r1) \in DOMAIN files /\ lastOpener[SavedAt(r1)] \in {r1, r2})
              => IF Wrote(lastOpener[SavedAt(r1)])
                 THEN /\ files[SavedAt(r1)] = Upload(lastOpener[SavedAt(r1)])
                      /\ files[SavedAt(r1)] \in {Upload(r1), Upload(r2)}
                      /\ files[SavedAt(r1)] = <<>>
                         => Upload(lastOpener[SavedAt(r1)]) = <<>>
                 ELSE /\ reqs[lastOpener[SavedAt(r1)]].pc = "raised"
                      /\ IsPrefix(files[SavedAt(r1)],
                                  Upload(lastOpener[SavedAt(r1)]))

\* Request 2 arrived after request 1 and request 1 wrote last, so the two were in
\* flight together; both have ended with a record each and the file has request
\* 1's bytes.
C8_Witness ==
    /\ SameNameOtherBytes(1, 2)
    /\ reqs[1].pc = "done" /\ reqs[2].pc = "done"
    /\ Stored(1) # {} /\ Stored(2) # {}
    /\ reqs[2].inserted_id = "id1" /\ reqs[1].inserted_id = "id2"
    /\ lastOpener[SavedAt(1)] = 1
    /\ files[SavedAt(1)] = Upload(1)
    /\ Upload(1) = <<1>> /\ Upload(2) = <<2, 3>>

\* C9 (as stated): in every reachable state, after any interleaving of create_item
\* and diagnostics requests, the image_url of each stored Item Record refers to a
\* file that is in the File Sink.
C9_RecordHasFile ==
    \A d \in records :
        \E fn \in Filenames :
            /\ d.data.image_url = "/uploads/" \o fn
            /\ ("/tmp/uploads/" \o fn) \in DOMAIN files

\* C10 (as stated): each valid request performs exactly one File Sink write
\* followed by exactly one storage insert call, in that order, and then responds.
C10_OneWriteOneInsert ==
    \A r \in Reqs :
        (Ended(r) /\ reqs[r].pc # "rejected")
        => reqs[r].trace = <<"open", "write", "insert">>

====
